---- MODULE Spec2Model ----
(***************************************************************************)
(* Node layer of sandboxfs: directory nodes (src/src/nodes/dir.rs) and     *)
(* file nodes (src/src/nodes/file.rs) over a mutable host file system.     *)
(***************************************************************************)
EXTENDS Integers, Sequences, FiniteSets, TLC

VARIABLES host, steps, nodes, cache, nextId, last, thr, mounted

vars == <<host, steps, nodes, cache, nextId, last, thr, mounted>>

-----------------------------------------------------------------------------
(* Bounds *)

MaxNodes == 4
MaxDepth == 3
MaxSteps == 3
MaxMounts == 3
MaxRequestDepth == 2

Names == {"a", "b"}

SeqsUpTo(S, k) == UNION {[1..i -> S] : i \in 1..k}

VPaths == SeqsUpTo(Names, MaxDepth)

\* The host tree the sandbox maps from: one top-level entry and what is in it.
HostTop == <<"a">>
HostPaths == {HostTop} \cup {Append(HostTop, x) : x \in Names}
HostTypes == {"none", "dir", "file"}

NoPath == <<>>
NoNode == 0
NoEntry == [node |-> NoNode, explicit |-> FALSE]
NoChildren == [x \in Names |-> NoEntry]

Perms(S) == {s \in [1..Cardinality(S) -> S] : \A i, j \in 1..Cardinality(S) : s[i] = s[j] => i = j}

-----------------------------------------------------------------------------
(* Host file system *)

Parent(p) == SubSeq(p, 1, Len(p) - 1)

\* fs::symlink_metadata(path): the type found at path, "none" when the stat
\* fails with NotFound.
Stat(h, p) == IF p \in DOMAIN h THEN h[p] ELSE "none"

\* Host trees: an entry exists only inside an existing directory.
ValidHost(h) == \A p \in HostPaths : (Len(p) > 1 /\ h[p] # "none") => h[Parent(p)] = "dir"

\* fs::read_dir(path): the names present in the host directory.
HostEntries(h, p) == {x \in Names : Stat(h, Append(p, x)) # "none"}

-----------------------------------------------------------------------------
(* Attribute translation (conv) *)

FiletypeFsToFuse(t) ==
    CASE t = "dir" -> "Directory"
      [] t = "file" -> "RegularFile"
      [] t = "symlink" -> "Symlink"
      [] OTHER -> "Unknown"

AttrFsToFuse(inode, t) ==
    [ino |-> inode, kind |-> FiletypeFsToFuse(t), perm |-> IF t = "dir" THEN 493 ELSE 420]

-----------------------------------------------------------------------------
(* Node constructors *)

ScaffoldPerm == 365

\* Dir::new_empty with the permission bits of a directory the owner may
\* write to.
NewEmptyWritable(inode, parent) ==
    [kind |-> "Dir", inode |-> inode, writable |-> FALSE, parent |-> parent,
     path |-> NoPath,
     attr |-> [ino |-> inode, kind |-> "Directory", perm |-> 493],
     children |-> NoChildren]

NewEmpty(inode, parent) ==
    [kind |-> "Dir", inode |-> inode, writable |-> FALSE, parent |-> parent,
     path |-> NoPath,
     attr |-> [ino |-> inode, kind |-> "Directory", perm |-> ScaffoldPerm],
     children |-> NoChildren]

DirNewMapped(inode, path, t, writable) ==
    [kind |-> "Dir", inode |-> inode, writable |-> writable, parent |-> inode,
     path |-> path, attr |-> AttrFsToFuse(inode, t), children |-> NoChildren]

SupportsType(t) == t # "dir" /\ t # "symlink"

FileNewMapped(inode, path, t, writable) ==
    [kind |-> "File", inode |-> inode, writable |-> writable, parent |-> 0,
     path |-> path, attr |-> AttrFsToFuse(inode, t), children |-> NoChildren]

\* Symlink::new_mapped: the third node variant, which the cache creates for a
\* host symlink.
SymlinkNewMapped(inode, path, t, writable) ==
    [kind |-> "Symlink", inode |-> inode, writable |-> writable, parent |-> 0,
     path |-> path, attr |-> AttrFsToFuse(inode, t), children |-> NoChildren]

\* Node::file_type_cached
FileTypeCached(n) == IF n.kind = "Dir" THEN "Directory" ELSE n.attr.kind

\* A world is the in-memory state the operations read and write.
World == [nodes |-> nodes, cache |-> cache, nextId |-> nextId]

\* IdGenerator::next followed by the registration of the created node object.
Alloc(W, mk(_)) ==
    [W EXCEPT !.nodes = Append(W.nodes, mk(W.nextId)), !.nextId = W.nextId + 1]

\* Cache::get_or_create
CacheGetOrCreate(W, path, t, writable) ==
    IF W.cache[path] # NoNode
    THEN [W |-> W, node |-> W.cache[path]]
    ELSE LET obj == Len(W.nodes) + 1
             mk(id) == IF t = "dir" THEN DirNewMapped(id, path, t, writable)
                      ELSE IF t = "symlink" THEN SymlinkNewMapped(id, path, t, writable)
                      ELSE FileNewMapped(id, path, t, writable)
             W1 == Alloc(W, mk)
         IN [W |-> [W1 EXCEPT !.cache[path] = obj], node |-> obj]

Insert(W, self, name, child, explicit) ==
    [W EXCEPT !.nodes[self].children[name] = [node |-> child, explicit |-> explicit]]

-----------------------------------------------------------------------------
(* Dir operations, one directory level at a time.  Every operator takes the
   world W and the host h and returns the world after the step together with
   the outcome. *)

\* Dir::new_scaffold_child giving the child the inode of the directory it is
\* created in instead of a fresh one.
NewScaffoldChildSameId(W, h, self, name) ==
    LET dir == W.nodes[self]
        childPath == Append(dir.path, name)
        t == IF dir.path # NoPath THEN Stat(h, childPath) ELSE "none"
        mk(id) == IF t = "dir" THEN DirNewMapped(dir.inode, childPath, t, dir.writable)
                               ELSE NewEmpty(dir.inode, dir.inode)
    IN  [W |-> Alloc(W, mk), node |-> Len(W.nodes) + 1]

\* Dir::new_scaffold_child: the directory created for an intermediate
\* component; mapped over the host directory of that name when there is one.
NewScaffoldChild(W, h, self, name) ==
    LET dir == W.nodes[self]
        childPath == Append(dir.path, name)
        t == IF dir.path # NoPath THEN Stat(h, childPath) ELSE "none"
        mk(id) == IF t = "dir" THEN DirNewMapped(id, childPath, t, dir.writable)
                               ELSE NewEmpty(id, dir.inode)
    IN  [W |-> Alloc(W, mk), node |-> Len(W.nodes) + 1]

\* Dir::map without the conflict check: an entry bound to a non-directory is
\* replaced as if the name were free.
MapLevelClobber(W, h, self, comps, hp, writable) ==
    LET name == Head(comps)
        remainder == Tail(comps)
        dirent == W.nodes[self].children[name]
        stop(W1, act) == [W |-> W1, act |-> act, next |-> NoNode, rest |-> <<>>]
    IN  IF comps = <<>> THEN stop(W, "panic")
        ELSE IF dirent.node # NoNode /\ FileTypeCached(W.nodes[dirent.node]) = "Directory"
            THEN [W |-> W, act |-> "descend", next |-> dirent.node, rest |-> remainder]
        ELSE IF remainder = <<>> THEN
            IF Stat(h, hp) = "none" THEN stop(W, "StatFailed")
            ELSE LET c == CacheGetOrCreate(W, hp, Stat(h, hp), writable)
                 IN  stop(Insert(c.W, self, name, c.node, TRUE), "ok")
        ELSE LET c == NewScaffoldChild(W, h, self, name)
             IN  [W |-> Insert(c.W, self, name, c.node, TRUE), act |-> "descend",
                  next |-> c.node, rest |-> remainder]

\* Dir::map marking the entry it descends through as an explicit mapping.
MapLevelPromote(W, h, self, comps, hp, writable) ==
    LET name == Head(comps)
        remainder == Tail(comps)
        dirent == W.nodes[self].children[name]
        stop(W1, act) == [W |-> W1, act |-> act, next |-> NoNode, rest |-> <<>>]
    IN  IF comps = <<>> THEN stop(W, "panic")
        ELSE IF dirent.node # NoNode THEN
            IF FileTypeCached(W.nodes[dirent.node]) # "Directory"
            THEN stop(W, "AlreadyMapped")
            ELSE [W |-> Insert(W, self, name, dirent.node, TRUE), act |-> "descend",
                  next |-> dirent.node, rest |-> remainder]
        ELSE IF remainder = <<>> THEN
            IF Stat(h, hp) = "none" THEN stop(W, "StatFailed")
            ELSE LET c == CacheGetOrCreate(W, hp, Stat(h, hp), writable)
                 IN  stop(Insert(c.W, self, name, c.node, TRUE), "ok")
        ELSE LET c == NewScaffoldChild(W, h, self, name)
                 W1 == Insert(c.W, self, name, c.node, TRUE)
             IN  IF FileTypeCached(W1.nodes[c.node]) # "Directory"
                 THEN stop(W1, "AlreadyMapped")
                 ELSE [W |-> W1, act |-> "descend", next |-> c.node, rest |-> remainder]

\* One level of Dir::map, under the lock of self.  act is "ok", an error, a
\* panic, or "descend" with the node and the remaining components of the
\* recursive call.
MapLevel(W, h, self, comps, hp, writable) ==
    LET name == Head(comps)
        remainder == Tail(comps)
        dirent == W.nodes[self].children[name]
        stop(W1, act) == [W |-> W1, act |-> act, next |-> NoNode, rest |-> <<>>]
    IN  IF comps = <<>> THEN stop(W, "panic")
        ELSE IF dirent.node # NoNode THEN
            IF FileTypeCached(W.nodes[dirent.node]) # "Directory"
            THEN stop(W, "AlreadyMapped")
            ELSE [W |-> W, act |-> "descend", next |-> dirent.node, rest |-> remainder]
        ELSE IF remainder = <<>> THEN
            IF Stat(h, hp) = "none" THEN stop(W, "StatFailed")
            ELSE LET c == CacheGetOrCreate(W, hp, Stat(h, hp), writable)
                 IN  stop(Insert(c.W, self, name, c.node, TRUE), "ok")
        ELSE LET c == NewScaffoldChild(W, h, self, name)
                 W1 == Insert(c.W, self, name, c.node, TRUE)
             IN  IF FileTypeCached(W1.nodes[c.node]) # "Directory"
                 THEN stop(W1, "AlreadyMapped")
                 ELSE [W |-> W1, act |-> "descend", next |-> c.node, rest |-> remainder]

\* Dir::map from the first call to its return.  held is the set of nodes
\* whose locks the calling thread holds: each level keeps its guard until the
\* recursive call returns, and locking a node in held never returns.  The
\* components are split before the lock is taken.
RECURSIVE MapRec(_, _, _, _, _, _, _)
MapRec(W, h, self, comps, hp, writable, held) ==
    IF comps = <<>> THEN [W |-> W, res |-> "panic", locks |-> Cardinality(held)]
    ELSE IF self \in held THEN [W |-> W, res |-> "deadlock", locks |-> Cardinality(held)]
    ELSE LET L == MapLevel(W, h, self, comps, hp, writable)
         IN  IF L.act = "descend"
             THEN MapRec(L.W, h, L.next, L.rest, hp, writable, held \cup {self})
             ELSE [W |-> L.W, res |-> L.act, locks |-> Cardinality(held) + 1]

\* getattr without the check of the host type: the cached record is
\* refreshed from whatever the stat finds.
GetattrBodyNoTypeCheck(W, h, n) ==
    LET node == W.nodes[n]
        t == Stat(h, node.path)
    IN  IF node.path = NoPath
        THEN [W |-> W, res |-> "ok", attr |-> node.attr, stat |-> FALSE]
        ELSE IF t = "none"
            THEN [W |-> W, res |-> "ENOENT", attr |-> node.attr, stat |-> TRUE]
        ELSE [W |-> [W EXCEPT !.nodes[n].attr = AttrFsToFuse(node.inode, t)],
              res |-> "ok", attr |-> AttrFsToFuse(node.inode, t), stat |-> TRUE]

\* Dir::getattr and File::getattr (getattr_locked), under the node's lock.
\* stat tells whether the host was asked for the metadata of a path.  A
\* symlink node accepts a symlink only.
GetattrBody(W, h, n) ==
    LET node == W.nodes[n]
        t == Stat(h, node.path)
        typeOk == IF node.kind = "Dir" THEN t = "dir"
                  ELSE IF node.kind = "Symlink" THEN t = "symlink"
                  ELSE SupportsType(t)
    IN  IF node.path = NoPath
        THEN [W |-> W, res |-> "ok", attr |-> node.attr, stat |-> FALSE]
        ELSE IF t = "none"
            THEN [W |-> W, res |-> "ENOENT", attr |-> node.attr, stat |-> TRUE]
        ELSE IF ~typeOk THEN [W |-> W, res |-> "EIO", attr |-> node.attr, stat |-> TRUE]
        ELSE [W |-> [W EXCEPT !.nodes[n].attr = AttrFsToFuse(node.inode, t)],
              res |-> "ok", attr |-> AttrFsToFuse(node.inode, t), stat |-> TRUE]

\* Dir::lookup without the check of the child table: the name is always
\* resolved on the host and entered as an implicit entry.
LookupBodyNoCheck(W, h, self, name) ==
    LET dir == W.nodes[self]
        path == Append(dir.path, name)
        t == Stat(h, path)
        c == CacheGetOrCreate(W, path, t, dir.writable)
    IN  IF dir.path = NoPath \/ t = "none"
        THEN [W |-> W, res |-> "ENOENT", ret |-> NoNode, attr |-> dir.attr, locks |-> 1]
        ELSE [W |-> Insert(c.W, self, name, c.node, FALSE), res |-> "ok",
              ret |-> c.node, attr |-> AttrFsToFuse(c.W.nodes[c.node].inode, t),
              locks |-> 1]

\* Dir::lookup.  A known child is refreshed through its own getattr, which
\* locks the child while the lock of self is held.
LookupBody(W, h, self, name) ==
    LET dir == W.nodes[self]
        dirent == dir.children[name]
        path == Append(dir.path, name)
        t == Stat(h, path)
        fail(e) == [W |-> W, res |-> e, ret |-> NoNode, attr |-> dir.attr, locks |-> 1]
    IN  IF dirent.node # NoNode THEN
            IF dirent.node = self
            THEN [W |-> W, res |-> "deadlock", ret |-> NoNode, attr |-> dir.attr, locks |-> 1]
            ELSE LET g == GetattrBody(W, h, dirent.node)
                 IN  [W |-> g.W, res |-> g.res,
                      ret |-> IF g.res = "ok" THEN dirent.node ELSE NoNode,
                      attr |-> g.attr, locks |-> 2]
        ELSE IF dir.path = NoPath THEN fail("ENOENT")
        ELSE IF t = "none" THEN fail("ENOENT")
        ELSE LET c == CacheGetOrCreate(W, path, t, dir.writable)
             IN  [W |-> Insert(c.W, self, name, c.node, FALSE), res |-> "ok",
                  ret |-> c.node, attr |-> AttrFsToFuse(c.W.nodes[c.node].inode, t),
                  locks |-> 1]

Entry(ino, pos, type, name) == [ino |-> ino, pos |-> pos, type |-> type, name |-> name]

\* Dir::readdir, second phase: the explicit children, in table order.  R is
\* the reply built so far and the position of the next entry.
RECURSIVE ReaddirExplicit(_, _, _, _)
ReaddirExplicit(W, self, order, R) ==
    IF order = <<>> THEN R
    ELSE LET name == Head(order)
             dirent == W.nodes[self].children[name]
             child == W.nodes[dirent.node]
         IN  ReaddirExplicit(W, self, Tail(order),
                 IF dirent.node # NoNode /\ dirent.explicit
                 THEN [reply |-> Append(R.reply,
                                    Entry(child.inode, R.pos, FileTypeCached(child), name)),
                       pos |-> R.pos + 1]
                 ELSE R)

\* Dir::readdir, third phase, without the skip of the names that are bound
\* explicitly.
RECURSIVE ReaddirHostNoSkip(_, _, _, _, _)
ReaddirHostNoSkip(W, h, self, entries, R) ==
    IF entries = <<>> THEN [W |-> W, reply |-> R.reply]
    ELSE LET name == Head(entries)
             dir == W.nodes[self]
             path == Append(dir.path, name)
             t == Stat(h, path)
             c == CacheGetOrCreate(W, path, t, dir.writable)
         IN  ReaddirHostNoSkip(Insert(c.W, self, name, c.node, FALSE), h, self, Tail(entries),
                 [reply |-> Append(R.reply, Entry(c.W.nodes[c.node].inode, R.pos,
                                                  FiletypeFsToFuse(t), name)),
                  pos |-> R.pos + 1])

\* Dir::readdir, third phase, counting a position for every host entry, the
\* skipped ones included.
RECURSIVE ReaddirHostGap(_, _, _, _, _)
ReaddirHostGap(W, h, self, entries, R) ==
    IF entries = <<>> THEN [W |-> W, reply |-> R.reply]
    ELSE LET name == Head(entries)
             dir == W.nodes[self]
             dirent == dir.children[name]
             path == Append(dir.path, name)
             t == Stat(h, path)
             c == CacheGetOrCreate(W, path, t, dir.writable)
         IN  IF dirent.node # NoNode /\ dirent.explicit
             THEN ReaddirHostGap(W, h, self, Tail(entries),
                      [reply |-> R.reply, pos |-> R.pos + 1])
             ELSE ReaddirHostGap(Insert(c.W, self, name, c.node, FALSE), h, self, Tail(entries),
                      [reply |-> Append(R.reply, Entry(c.W.nodes[c.node].inode, R.pos,
                                                       FiletypeFsToFuse(t), name)),
                       pos |-> R.pos + 1])

\* Dir::readdir, third phase: the entries of the host directory, in the
\* order read_dir yields them.
RECURSIVE ReaddirHost(_, _, _, _, _)
ReaddirHost(W, h, self, entries, R) ==
    IF entries = <<>> THEN [W |-> W, reply |-> R.reply]
    ELSE LET name == Head(entries)
             dir == W.nodes[self]
             dirent == dir.children[name]
             path == Append(dir.path, name)
             t == Stat(h, path)
             c == CacheGetOrCreate(W, path, t, dir.writable)
         IN  IF dirent.node # NoNode /\ dirent.explicit
             THEN ReaddirHost(W, h, self, Tail(entries), R)
             ELSE ReaddirHost(Insert(c.W, self, name, c.node, FALSE), h, self, Tail(entries),
                      [reply |-> Append(R.reply, Entry(c.W.nodes[c.node].inode, R.pos,
                                                       FiletypeFsToFuse(t), name)),
                       pos |-> R.pos + 1])

\* Dir::readdir without the early return for a directory that has no backing
\* path: the host phase runs on every directory.
ReaddirBodyNoReturn(W, h, self, tableOrder, hostOrder) ==
    LET dir == W.nodes[self]
        head == [reply |-> <<Entry(dir.inode, 0, "Directory", "."),
                             Entry(dir.parent, 1, "Directory", "..")>>,
                 pos |-> 2]
        explicit == ReaddirExplicit(W, self, tableOrder, head)
        r == ReaddirHost(W, h, self, hostOrder, explicit)
    IN  [W |-> r.W, res |-> "ok", reply |-> r.reply]

\* Dir::readdir.  tableOrder is the iteration order of the child table and
\* hostOrder the order of the host listing.
ReaddirBody(W, h, self, tableOrder, hostOrder) ==
    LET dir == W.nodes[self]
        head == [reply |-> <<Entry(dir.inode, 0, "Directory", "."),
                             Entry(dir.parent, 1, "Directory", "..")>>,
                 pos |-> 2]
        explicit == ReaddirExplicit(W, self, tableOrder, head)
        r == ReaddirHost(W, h, self, hostOrder, explicit)
    IN  IF dir.path = NoPath THEN [W |-> W, res |-> "ok", reply |-> explicit.reply]
        ELSE IF Stat(h, dir.path) = "none"
            THEN [W |-> W, res |-> "ENOENT", reply |-> explicit.reply]
        ELSE IF Stat(h, dir.path) # "dir"
            THEN [W |-> W, res |-> "ENOTDIR", reply |-> explicit.reply]
        ELSE [W |-> r.W, res |-> "ok", reply |-> r.reply]

-----------------------------------------------------------------------------
(* File operations *)

\* File::delete
DeleteBody(W, n) ==
    IF W.nodes[n].path = NoPath THEN [W |-> W, res |-> "panic"]
    ELSE [W |-> [W EXCEPT !.nodes[n].path = NoPath], res |-> "ok"]

\* conv::flags_to_openoptions: write access is refused on a read-only node.
FlagsToOpenOptions(flags, writable) ==
    IF flags \in {"wronly", "rdwr"} /\ ~writable THEN "EPERM" ELSE "ok"

\* File::open.  hostOpen tells whether the host was asked to open a path.
OpenBody(W, h, n, flags) ==
    LET node == W.nodes[n]
    IN  IF FlagsToOpenOptions(flags, node.writable) # "ok"
        THEN [res |-> FlagsToOpenOptions(flags, node.writable), hostOpen |-> FALSE]
        ELSE IF node.path = NoPath THEN [res |-> "panic", hostOpen |-> FALSE]
        ELSE IF Stat(h, node.path) = "none" THEN [res |-> "ENOENT", hostOpen |-> TRUE]
        ELSE [res |-> "ok", hostOpen |-> TRUE]

-----------------------------------------------------------------------------
(* Sequential specification: one call at a time, each from entry to return *)

RootNode == 1

NoCall == [op |-> "none", node |-> NoNode, comps |-> <<>>, name |-> "", hp |-> NoPath,
           w |-> FALSE, flags |-> "", ty |-> "none", res |-> "", ret |-> NoNode,
           reply |-> <<>>, locks |-> 0, hostOpen |-> FALSE, hostStat |-> FALSE,
           attr |-> [ino |-> NoNode, kind |-> "Unknown", perm |-> 0]]

NoRequest == [op |-> "none", node |-> NoNode, comps |-> <<>>, name |-> "", hp |-> NoPath,
              w |-> FALSE]

\* A worker thread: the request it serves, the frame it is in (op, node,
\* comps), the locks it holds and the nodes it has locked so far.
Idle == [pc |-> "idle", call |-> NoRequest, op |-> "none", node |-> NoNode, comps |-> <<>>,
         held |-> <<>>, locked |-> {}, snap |-> NoChildren, res |-> "", ret |-> NoNode]

Threads == {1, 2}

\* The host tree at mount time: a directory holding a directory and a file.
HostAtMount ==
    [p \in HostPaths |-> IF p = Append(HostTop, "b") THEN "file" ELSE "dir"]

Init ==
    /\ host = HostAtMount
    /\ steps = 0
    /\ nodes = <<NewEmpty(RootNode, RootNode)>>
    /\ cache = [p \in HostPaths |-> NoNode]
    /\ nextId = RootNode + 1
    /\ last = NoCall
    /\ thr = [t \in Threads |-> Idle]
    /\ mounted = World

\* A panic or a self-deadlock ends the run of the file system.
Alive == last.res \notin {"panic", "deadlock"} /\ steps < MaxSteps

Dirs == {n \in 1..Len(nodes) : nodes[n].kind = "Dir"}
Files == {n \in 1..Len(nodes) : nodes[n].kind = "File"}

Commit(W) ==
    /\ Len(W.nodes) <= MaxNodes
    /\ nodes' = W.nodes
    /\ cache' = W.cache
    /\ nextId' = W.nextId

MapCall(vp, hp, w) ==
    LET r == MapRec(World, host, RootNode, vp, hp, w, {})
    IN  /\ Commit(r.W)
        /\ last' = [NoCall EXCEPT !.op = "map", !.node = RootNode, !.comps = vp, !.hp = hp,
                                  !.w = w, !.ty = Stat(host, hp), !.res = r.res,
                                  !.locks = r.locks]
        /\ steps' = steps + 1
        /\ UNCHANGED <<host, thr, mounted>>

Map(vp, hp, w) == Alive /\ MapCall(vp, hp, w)

LookupCall(n, name) ==
    LET r == LookupBody(World, host, n, name)
    IN  /\ Commit(r.W)
        /\ last' = [NoCall EXCEPT !.op = "lookup", !.node = n, !.name = name, !.res = r.res,
                                  !.ret = r.ret, !.locks = r.locks]
        /\ steps' = steps + 1
        /\ UNCHANGED <<host, thr, mounted>>

Lookup(n, name) == Alive /\ LookupCall(n, name)

ReaddirCall(n, tableOrder, hostOrder) ==
    LET r == ReaddirBody(World, host, n, tableOrder, hostOrder)
    IN  /\ Commit(r.W)
        /\ last' = [NoCall EXCEPT !.op = "readdir", !.node = n, !.res = r.res,
                                  !.reply = r.reply, !.locks = 1]
        /\ steps' = steps + 1
        /\ UNCHANGED <<host, thr, mounted>>

Readdir(n, tableOrder, hostOrder) == Alive /\ ReaddirCall(n, tableOrder, hostOrder)

GetattrCall(n) ==
    LET r == GetattrBody(World, host, n)
    IN  /\ Commit(r.W)
        /\ last' = [NoCall EXCEPT !.op = "getattr", !.node = n, !.res = r.res, !.locks = 1,
                                  !.hostStat = r.stat, !.attr = r.attr]
        /\ steps' = steps + 1
        /\ UNCHANGED <<host, thr, mounted>>

Getattr(n) == Alive /\ GetattrCall(n)

DeleteCall(n) ==
    LET r == DeleteBody(World, n)
    IN  /\ Commit(r.W)
        /\ last' = [NoCall EXCEPT !.op = "delete", !.node = n, !.res = r.res, !.locks = 1]
        /\ steps' = steps + 1
        /\ UNCHANGED <<host, thr, mounted>>

Delete(n) == Alive /\ DeleteCall(n)

OpenCall(n, flags) ==
    LET r == OpenBody(World, host, n, flags)
    IN  /\ last' = [NoCall EXCEPT !.op = "open", !.node = n, !.flags = flags, !.res = r.res,
                                  !.hostOpen = r.hostOpen, !.locks = 1]
        /\ steps' = steps + 1
        /\ UNCHANGED <<host, nodes, cache, nextId, thr, mounted>>

Open(n, flags) == Alive /\ OpenCall(n, flags)

\* The host tree changes behind the file system: the entry at p becomes t.
\* Replacing a directory removes what was inside it.
HostChangeTo(p, t) ==
    LET h == [q \in HostPaths |->
                 IF q = p THEN t
                 ELSE IF Len(q) > Len(p) /\ SubSeq(q, 1, Len(p)) = p /\ t # "dir" THEN "none"
                 ELSE host[q]]
    IN  /\ host[p] # t
        /\ ValidHost(h)
        /\ host' = h
        /\ steps' = steps + 1
        /\ UNCHANGED <<nodes, cache, nextId, last, thr, mounted>>

HostChange(p, t) == Alive /\ HostChangeTo(p, t)

Next ==
    \/ \E vp \in VPaths, hp \in HostPaths, w \in BOOLEAN : Map(vp, hp, w)
    \/ \E n \in Dirs, name \in Names : Lookup(n, name)
    \/ \E n \in Dirs, tableOrder \in Perms(Names) :
           \E hostOrder \in Perms(HostEntries(host, nodes[n].path)) :
               Readdir(n, tableOrder, hostOrder)
    \/ \E n \in 1..Len(nodes) : Getattr(n)
    \/ \E n \in Files : Delete(n)
    \/ \E n \in Files, flags \in {"rdonly", "rdwr"} : Open(n, flags)
    \/ \E p \in HostPaths, t \in HostTypes : HostChange(p, t)

Spec == Init /\ [][Next]_vars

\* Map calls only, over a host tree that changes between them.
NextMaps ==
    \/ \E vp \in VPaths, hp \in HostPaths, w \in BOOLEAN : Map(vp, hp, w)
    \/ \E p \in HostPaths, t \in HostTypes : HostChange(p, t)

SpecMaps == Init /\ [][NextMaps]_vars

-----------------------------------------------------------------------------
(* Concurrent specification: worker threads serving one request each, one
   lock per node, over the tree left by the mappings given at mount time *)

\* The mappings given at mount time: the k-th binds the path of k components
\* "a" to a host path.
MountTables == UNION {[1..m -> HostPaths] : m \in 0..MaxMounts}

RECURSIVE Mount(_, _, _)
Mount(W, tbl, k) ==
    IF k > Len(tbl) THEN [W |-> W, ok |-> TRUE]
    ELSE LET r == MapRec(W, HostAtMount, RootNode, [i \in 1..k |-> "a"], tbl[k], FALSE, {})
         IN  IF r.res = "ok" THEN Mount(r.W, tbl, k + 1) ELSE [W |-> r.W, ok |-> FALSE]

InitConc ==
    /\ host = HostAtMount
    /\ steps = 0
    /\ \E tbl \in MountTables :
          LET r == Mount([nodes |-> <<NewEmpty(RootNode, RootNode)>>,
                          cache |-> [p \in HostPaths |-> NoNode],
                          nextId |-> RootNode + 1], tbl, 1)
          IN  /\ r.ok
              /\ Len(r.W.nodes) <= MaxNodes
              /\ nodes = r.W.nodes
              /\ cache = r.W.cache
              /\ nextId = r.W.nextId
              /\ mounted = r.W
    /\ last = NoCall
    /\ thr = [t \in Threads |-> Idle]

HeldBy(t) == {thr[t].held[i] : i \in 1..Len(thr[t].held)}

\* Mutex::lock on the state of node n by thread t returns only while no
\* thread holds the lock, t included.
LockNoWait(t, n) == TRUE

CanLock(t, n) == \A u \in Threads : n \notin HeldBy(u)

\* The thread returns from every frame: the guards are dropped.
Return(t, res, ret) ==
    [thr[t] EXCEPT !.pc = "done", !.held = <<>>, !.res = res, !.ret = ret]

\* A request arrives at thread t.  Map requests enter at the root.
Call(t, req) ==
    /\ thr[t].pc = "idle"
    /\ thr' = [thr EXCEPT ![t] = [Idle EXCEPT !.pc = "lock", !.call = req, !.op = req.op,
                                              !.node = req.node, !.comps = req.comps]]
    /\ UNCHANGED <<host, steps, nodes, cache, nextId, last, mounted>>

\* The frame takes the lock of its node.  A map frame splits its components
\* before, and panics on an empty list.
Acquire(t) ==
    LET me == thr[t]
    IN  /\ me.pc = "lock"
        /\ IF me.op = "map" /\ me.comps = <<>>
           THEN thr' = [thr EXCEPT ![t] = Return(t, "panic", NoNode)]
           ELSE /\ CanLock(t, me.node)
                /\ thr' = [thr EXCEPT ![t] = [me EXCEPT !.pc = "read",
                                                        !.held = Append(me.held, me.node),
                                                        !.locked = me.locked \cup {me.node}]]
        /\ UNCHANGED <<host, steps, nodes, cache, nextId, last, mounted>>

\* The frame reads the child table of its node.
Read(t) ==
    /\ thr[t].pc = "read"
    /\ thr' = [thr EXCEPT ![t] = [thr[t] EXCEPT !.pc = "write",
                                                !.snap = nodes[thr[t].node].children]]
    /\ UNCHANGED <<host, steps, nodes, cache, nextId, last, mounted>>

\* The world as the frame of thread t sees it: the child table it has read.
Seen(t) == [World EXCEPT !.nodes[thr[t].node].children = thr[t].snap]

\* One level of map: the frame writes, then returns or calls map on the child
\* while it keeps its lock.
MapWrite(t) ==
    LET me == thr[t]
        L == MapLevel(Seen(t), host, me.node, me.comps, me.call.hp, me.call.w)
    IN  /\ me.pc = "write" /\ me.op = "map"
        /\ Commit(L.W)
        /\ thr' = [thr EXCEPT ![t] =
                      IF L.act = "descend"
                      THEN [me EXCEPT !.pc = "lock", !.node = L.next, !.comps = L.rest]
                      ELSE Return(t, L.act, NoNode)]
        /\ UNCHANGED <<host, steps, last, mounted>>

\* lookup: a known child is refreshed by a call of its getattr under the lock
\* of the directory; an unknown one is resolved on the host and entered.
LookupWrite(t) ==
    LET me == thr[t]
        dirent == me.snap[me.call.name]
        r == LookupBody(Seen(t), host, me.node, me.call.name)
    IN  /\ me.pc = "write" /\ me.op = "lookup"
        /\ IF dirent.node # NoNode
           THEN /\ thr' = [thr EXCEPT ![t] = [me EXCEPT !.pc = "lock", !.op = "getattr",
                                                        !.node = dirent.node]]
                /\ UNCHANGED <<nodes, cache, nextId>>
           ELSE /\ Commit(r.W)
                /\ thr' = [thr EXCEPT ![t] = Return(t, r.res, r.ret)]
        /\ UNCHANGED <<host, steps, last, mounted>>

\* getattr of the child a lookup found.
GetattrWrite(t) ==
    LET me == thr[t]
        r == GetattrBody(World, host, me.node)
    IN  /\ me.pc = "write" /\ me.op = "getattr"
        /\ Commit(r.W)
        /\ thr' = [thr EXCEPT ![t] =
                      Return(t, r.res, IF r.res = "ok" THEN me.node ELSE NoNode)]
        /\ UNCHANGED <<host, steps, last, mounted>>

ReaddirWrite(t) ==
    LET me == thr[t]
    IN  /\ me.pc = "write" /\ me.op = "readdir"
        /\ \E tableOrder \in Perms(Names) :
              \E hostOrder \in Perms(HostEntries(host, nodes[me.node].path)) :
                  LET r == ReaddirBody(Seen(t), host, me.node, tableOrder, hostOrder)
                  IN  /\ Commit(r.W)
                      /\ thr' = [thr EXCEPT ![t] = Return(t, r.res, NoNode)]
        /\ UNCHANGED <<host, steps, last, mounted>>

\* The requests the threads serve.  The mappings asked for are read-only.
MapRequests ==
    {[NoRequest EXCEPT !.op = "map", !.node = RootNode, !.comps = vp, !.hp = hp]
         : vp \in SeqsUpTo(Names, MaxRequestDepth), hp \in HostPaths}
\* Lookup and readdir requests name a directory by its inode, which the kernel
\* learns from the reply of an earlier request: the directories of the tree at
\* mount time.
KnownDirs == {n \in 1..Len(mounted.nodes) : mounted.nodes[n].kind = "Dir"}
DirRequests ==
    {[NoRequest EXCEPT !.op = "lookup", !.node = n, !.name = x] : n \in KnownDirs, x \in Names}
        \cup {[NoRequest EXCEPT !.op = "readdir", !.node = n] : n \in KnownDirs}

NextConc ==
    \/ \E t \in Threads, req \in MapRequests \cup DirRequests : Call(t, req)
    \/ \E t \in Threads : Acquire(t)
    \/ \E t \in Threads : Read(t)
    \/ \E t \in Threads : MapWrite(t)
    \/ \E t \in Threads : LookupWrite(t)
    \/ \E t \in Threads : GetattrWrite(t)
    \/ \E t \in Threads : ReaddirWrite(t)

SpecConc == InitConc /\ [][NextConc]_vars

-----------------------------------------------------------------------------
(* Serving specification: the kernel's requests on the tree left by the
   mappings given at mount time, while the host tree changes; host entries
   may become symlinks *)

MaxServeSteps == 4

ServeTypes == HostTypes \cup {"symlink"}

Serving == last.res \notin {"panic", "deadlock"} /\ steps < MaxServeSteps

ServeLookup(n, name) == Serving /\ LookupCall(n, name)

ServeReaddir(n, tableOrder, hostOrder) == Serving /\ ReaddirCall(n, tableOrder, hostOrder)

ServeGetattr(n) == Serving /\ GetattrCall(n)

ServeDelete(n) == Serving /\ DeleteCall(n)

ServeHostChange(p, t) == Serving /\ HostChangeTo(p, t)

NextServe ==
    \/ \E n \in Dirs, name \in Names : ServeLookup(n, name)
    \/ \E n \in Dirs, tableOrder \in Perms(Names) :
           \E hostOrder \in Perms(HostEntries(host, nodes[n].path)) :
               ServeReaddir(n, tableOrder, hostOrder)
    \/ \E n \in Dirs \cup Files : ServeGetattr(n)
    \/ \E n \in Files : ServeDelete(n)
    \/ \E p \in HostPaths, t \in ServeTypes : ServeHostChange(p, t)

SpecServe == InitConc /\ [][NextServe]_vars

-----------------------------------------------------------------------------
(* Walking the tree *)

\* The node found by following comps from n through the child tables, NoNode
\* when a component has no entry.
RECURSIVE Resolve(_, _, _)
Resolve(W, n, comps) ==
    IF comps = <<>> THEN n
    ELSE LET e == W.nodes[n].children[Head(comps)]
         IN  IF e.node = NoNode THEN NoNode ELSE Resolve(W, e.node, Tail(comps))

Front(q) == SubSeq(q, 1, Len(q) - 1)

\* The entry a virtual path is bound to.
BoundEntry(W, vp) ==
    LET d == Resolve(W, RootNode, Front(vp))
    IN  IF d = NoNode THEN NoEntry ELSE W.nodes[d].children[vp[Len(vp)]]

\* The nodes reachable from the root through the child tables.
RECURSIVE ReachFrom(_, _)
ReachFrom(W, S) ==
    LET T == (S \cup {W.nodes[n].children[x].node : n \in S, x \in Names}) \ {NoNode}
    IN  IF T = S THEN S ELSE ReachFrom(W, T)

Reachable == ReachFrom(World, {RootNode})

\* A step that is one map call.
MapStep == last'.op = "map" /\ steps' = steps + 1 /\ host' = host

\* A step that is one lookup or readdir call.
LookupOrReaddirStep == last'.op \in {"lookup", "readdir"} /\ steps' = steps + 1 /\ host' = host

-----------------------------------------------------------------------------
(* Claims *)

\* C1: a readdir reply never holds two entries of the same name, and every
\* name with an explicit entry in the child table appears exactly once, with
\* the inode of the explicitly mapped node.
C1_ReaddirExplicitWins ==
    last.op = "readdir" =>
        LET r == last.reply
            d == nodes[last.node]
        IN  /\ \A i, j \in 1..Len(r) : r[i].name = r[j].name => i = j
            /\ \A x \in Names :
                  (d.children[x].node # NoNode /\ d.children[x].explicit) =>
                      \E i \in 1..Len(r) :
                          /\ r[i].name = x
                          /\ r[i].ino = nodes[d.children[x].node].inode

\* C1 witness: a successful readdir of a backed directory holding an explicit
\* entry whose name also exists in the host directory.
C1_Witness ==
    /\ last.op = "readdir" /\ last.res = "ok"
    /\ nodes[last.node].path # NoPath
    /\ \E x \in Names :
          /\ nodes[last.node].children[x].explicit
          /\ Stat(host, Append(nodes[last.node].path, x)) # "none"
          /\ nodes[nodes[last.node].children[x].node].path # Append(nodes[last.node].path, x)
          /\ Len(last.reply) > 3

\* C2: no lookup and no readdir changes the node or the explicit_mapping flag
\* of an entry that is explicit.
C2_ExplicitKept ==
    [][LookupOrReaddirStep =>
          \A n \in 1..Len(nodes), x \in Names :
              nodes[n].children[x].explicit => nodes'[n].children[x] = nodes[n].children[x]]_vars

\* C2 witness: a lookup of a name that is bound explicitly in a backed
\* directory whose host directory has an entry of that name.
C2_Witness ==
    /\ last.op = "lookup" /\ last.res = "ok"
    /\ nodes[last.node].path # NoPath
    /\ nodes[last.node].children[last.name].explicit
    /\ Stat(host, Append(nodes[last.node].path, last.name)) # "none"
    /\ nodes[last.ret].path # Append(nodes[last.node].path, last.name)

\* C3: two nodes reachable from the root and backed by the same host path are
\* the same node, with the same inode.
C3_OneNodePerHostPath ==
    \A n, m \in Reachable :
        (nodes[n].path # NoPath /\ nodes[n].path = nodes[m].path) =>
            (n = m /\ nodes[n].inode = nodes[m].inode)

\* The place where a map call along comps meets an entry bound to a
\* non-directory while components remain; dir is NoNode when it meets none.
RECURSIVE ConflictPoint(_, _, _, _)
ConflictPoint(W, n, comps, held) ==
    LET e == W.nodes[n].children[Head(comps)]
        none == [dir |-> NoNode, name |-> ""]
    IN  IF comps = <<>> \/ n \in held \/ e.node = NoNode THEN none
        ELSE IF FileTypeCached(W.nodes[e.node]) # "Directory"
            THEN IF Tail(comps) # <<>> THEN [dir |-> n, name |-> Head(comps)] ELSE none
        ELSE ConflictPoint(W, e.node, Tail(comps), held \cup {n})

\* C4: a map call that meets an entry bound to a non-directory while
\* components remain fails with "Already mapped" and leaves the entry and its
\* node as they were.
C4_ConflictFails ==
    [][MapStep =>
          LET c == ConflictPoint(World, RootNode, last'.comps, {})
              e == nodes[c.dir].children[c.name]
          IN  c.dir # NoNode =>
                  /\ last'.res = "AlreadyMapped"
                  /\ nodes'[c.dir].children[c.name] = e
                  /\ nodes'[e.node] = nodes[e.node]]_vars

\* C4 witness: a map call over at least two components returned the conflict
\* error at an entry bound to a file.
C4_Witness ==
    /\ last.op = "map" /\ last.res = "AlreadyMapped"
    /\ Len(last.comps) > 1
    /\ ConflictPoint(World, RootNode, last.comps, {}).dir # NoNode

\* C5: after a successful map call every proper prefix of the path is a
\* directory and the last component is an explicit entry whose node is backed
\* by the given host path and has the type the host path had at the call.
C5_MapBindsHostType ==
    (last.op = "map" /\ last.res = "ok") =>
        LET e == BoundEntry(World, last.comps)
        IN  /\ \A k \in 1..(Len(last.comps) - 1) :
                  LET d == Resolve(World, RootNode, SubSeq(last.comps, 1, k))
                  IN  d # NoNode /\ FileTypeCached(nodes[d]) = "Directory"
            /\ e.node # NoNode /\ e.explicit
            /\ nodes[e.node].path = last.hp
            /\ FileTypeCached(nodes[e.node]) = FiletypeFsToFuse(last.ty)

\* C6: after a successful map call with writability w the node bound at the
\* last component reports writable() = w.
C6_MapWritable ==
    (last.op = "map" /\ last.res = "ok") =>
        LET e == BoundEntry(World, last.comps)
        IN  e.node # NoNode /\ nodes[e.node].writable = last.w

\* C7: a thread running map or lookup never locks a node whose lock it holds.
C7_NoSelfDeadlock ==
    last.op \in {"map", "lookup"} => last.res # "deadlock"

\* What a request yields when it runs alone from world W: the world after, the
\* result and the node returned (one outcome per order of a readdir).
SerialResults(W, c) ==
    IF c.op = "map"
    THEN LET r == MapRec(W, host, RootNode, c.comps, c.hp, c.w, {})
         IN  {[W |-> r.W, res |-> r.res, ret |-> NoNode]}
    ELSE IF c.op = "lookup"
    THEN LET r == LookupBody(W, host, c.node, c.name)
         IN  {[W |-> r.W, res |-> r.res, ret |-> r.ret]}
    ELSE {[W |-> ReaddirBody(W, host, c.node, o1, o2).W,
           res |-> ReaddirBody(W, host, c.node, o1, o2).res, ret |-> NoNode]
              : o1 \in Perms(Names), o2 \in Perms(HostEntries(host, W.nodes[c.node].path))}

\* Threads t and u have returned and the world is the one left by t's
\* request followed by u's, with the results the threads got.
SerialOrder(t, u) ==
    \E r1 \in SerialResults(mounted, thr[t].call) :
        /\ r1.res = thr[t].res /\ r1.ret = thr[t].ret
        /\ \E r2 \in SerialResults(r1.W, thr[u].call) :
              r2.res = thr[u].res /\ r2.ret = thr[u].ret /\ r2.W = World

\* Threads t and u have both looked up the same name, unknown at mount time,
\* in the same directory, with success.
SameLookups(t, u) ==
    /\ t # u
    /\ thr[t].pc = "done" /\ thr[u].pc = "done"
    /\ thr[t].call.op = "lookup" /\ thr[u].call = thr[t].call
    /\ mounted.nodes[thr[t].call.node].children[thr[t].call.name].node = NoNode
    /\ thr[t].res = "ok" /\ thr[u].res = "ok"

\* C8: calls on one directory exclude each other: no two threads hold the
\* lock of one node, two requests that locked a common directory leave the
\* world of one of their two sequential orders, and two lookups of one unknown
\* name return the same node, the one entered for the name.
C8_Serialized ==
    /\ \A t, u \in Threads : t # u => HeldBy(t) \cap HeldBy(u) = {}
    /\ \A t, u \in Threads :
          (t # u /\ thr[t].pc = "done" /\ thr[u].pc = "done"
                 /\ thr[t].locked \cap thr[u].locked # {})
              => (SerialOrder(t, u) \/ SerialOrder(u, t))
    /\ \A t, u \in Threads :
          SameLookups(t, u) =>
              /\ thr[t].ret = thr[u].ret
              /\ nodes[thr[t].call.node].children[thr[t].call.name].node = thr[t].ret

\* C8 witness: two threads have looked up one unknown name in one directory.
C8_Witness == \E t, u \in Threads : SameLookups(t, u)

\* C9: open on a deleted file returns an error value and does not touch the
\* host.
C9_OpenDeletedFails ==
    (last.op = "open" /\ nodes[last.node].path = NoPath) =>
        (last.res \notin {"ok", "panic"} /\ ~last.hostOpen)

\* The directories whose child table holds node d.
ParentsOf(d) == {n \in 1..Len(nodes) : \E x \in Names : nodes[n].children[x].node = d}

\* C10: readdir emits "." with the directory's inode at position 0 and ".."
\* with the inode of the directory holding it (the root: its own) at
\* position 1.
C10_DotDotIsParent ==
    last.op = "readdir" =>
        LET r == last.reply
            d == last.node
        IN  /\ r[1].name = "." /\ r[1].pos = 0 /\ r[1].ino = nodes[d].inode
            /\ r[2].name = ".." /\ r[2].pos = 1
            /\ IF d = RootNode THEN r[2].ino = nodes[d].inode
               ELSE \E q \in ParentsOf(d) : r[2].ino = nodes[q].inode

\* C11: in a successful readdir the positions given to the reply are 0, 1,
\* 2, ... in the order of emission: "." then "..", then the explicit entries,
\* then the entries found on the host, with no position skipped or repeated.
C11_PositionsGapless ==
    (last.op = "readdir" /\ last.res = "ok") =>
        LET r == last.reply
            isExplicit(i) == nodes[last.node].children[r[i].name].explicit
        IN  /\ Len(r) >= 2 /\ r[1].name = "." /\ r[2].name = ".."
            /\ \A i \in 1..Len(r) : r[i].pos = i - 1
            /\ \A i, j \in 3..Len(r) : (i < j /\ isExplicit(j)) => isExplicit(i)

\* C11 witness: a successful readdir of a backed directory that emitted an
\* explicit entry, skipped the host entry of the same name and emitted the
\* other host entry.
C11_Witness ==
    /\ last.op = "readdir" /\ last.res = "ok"
    /\ nodes[last.node].path # NoPath
    /\ Len(last.reply) = 4
    /\ nodes[last.node].children[last.reply[3].name].explicit
    /\ Stat(host, Append(nodes[last.node].path, last.reply[3].name)) # "none"
    /\ ~nodes[last.node].children[last.reply[4].name].explicit

\* The directories without a host-backing path: the scaffolds.
Scaffolds == {n \in 1..Len(nodes) : nodes[n].kind = "Dir" /\ nodes[n].path = NoPath}

\* C12: a scaffold directory has no host-backing path, permission bits 0o555,
\* cached type Directory and writable() = false, and no call changes its
\* path, attribute record or writable flag.
C12_ScaffoldFixed ==
    /\ [](\A n \in Scaffolds :
             /\ nodes[n].attr.perm = 365
             /\ nodes[n].attr.kind = "Directory"
             /\ FileTypeCached(nodes[n]) = "Directory"
             /\ ~nodes[n].writable)
    /\ [][\A n \in Scaffolds :
             /\ nodes'[n].path = NoPath
             /\ nodes'[n].attr = nodes[n].attr
             /\ nodes'[n].writable = nodes[n].writable]_vars

\* C12 witness: getattr has returned on a scaffold created by a map call for
\* an intermediate component.
C12_Witness ==
    /\ last.op = "getattr" /\ last.res = "ok"
    /\ last.node \in Scaffolds /\ last.node # RootNode
    /\ \E x \in Names : nodes[last.node].children[x].node # NoNode

\* A step that is one lookup call.
LookupStep == last'.op = "lookup" /\ steps' = steps + 1 /\ host' = host

\* A step that is one readdir call.
ReaddirStep == last'.op = "readdir" /\ steps' = steps + 1 /\ host' = host

\* C13: every entry in the child table of a scaffold is explicit; a lookup of
\* a name that is not in the table of a scaffold fails with ENOENT and leaves
\* the table as it was, and a readdir of a scaffold adds no entry.
C13_ScaffoldOnlyExplicit ==
    /\ [](\A n \in Scaffolds, x \in Names :
             nodes[n].children[x].node # NoNode => nodes[n].children[x].explicit)
    /\ [][(LookupStep /\ last'.node \in Scaffolds
                      /\ nodes[last'.node].children[last'.name].node = NoNode)
              => (last'.res = "ENOENT" /\ last'.ret = NoNode /\ nodes' = nodes)]_vars
    /\ [][(ReaddirStep /\ last'.node \in Scaffolds)
              => (last'.res = "ok" /\ nodes' = nodes)]_vars

\* C13 witness: a lookup of an unknown name has failed with ENOENT on a
\* scaffold, other than the root, that holds an entry.
C13_Witness ==
    /\ last.op = "lookup" /\ last.res = "ENOENT"
    /\ last.node \in Scaffolds /\ last.node # RootNode
    /\ nodes[last.node].children[last.name].node = NoNode
    /\ \E x \in Names : nodes[last.node].children[x].explicit

\* The node objects that exist: those reachable from the root and those the
\* cache holds.
Live == Reachable \cup ({cache[p] : p \in HostPaths} \ {NoNode})

\* C14: two distinct live node objects have different inodes, and the inode
\* and the writable flag of a node never change.
C14_InodesUnique ==
    /\ [](\A n, m \in Live : n # m => nodes[n].inode # nodes[m].inode)
    /\ [][\A n \in 1..Len(nodes) :
             /\ nodes'[n].inode = nodes[n].inode
             /\ nodes'[n].writable = nodes[n].writable]_vars

\* C14 witness: the root, a directory created for an intermediate component
\* and a node created by the cache are live together.
C14_Witness ==
    /\ \E n \in Live \ {RootNode} : \A p \in HostPaths : cache[p] # n
    /\ \E p \in HostPaths : cache[p] \in Reachable
    /\ Cardinality(Live) >= 4

\* C15: a lookup of a name that has an implicit entry in a backed directory
\* and no host entry any more fails with ENOENT, returns no node and leaves
\* the entry in the child table.
C15_StaleLookupFails ==
    [][LET d == last'.node
           e == nodes[d].children[last'.name]
       IN  (LookupStep /\ nodes[d].path # NoPath /\ e.node # NoNode /\ ~e.explicit
                       /\ Stat(host, Append(nodes[d].path, last'.name)) = "none")
               => (last'.res = "ENOENT" /\ last'.ret = NoNode
                                       /\ nodes'[d].children[last'.name] = e)]_vars

\* C16: a thread holds the lock of at most one node at any moment, also while
\* its map call runs in a child or its lookup runs the getattr of a child.
C16_OneLockAtATime == \A t \in Threads : Cardinality(HeldBy(t)) <= 1

\* A step that is one getattr call.
GetattrStep == last'.op = "getattr" /\ steps' = steps + 1 /\ host' = host

\* C17: getattr on a backed Dir whose host path holds something that is not a
\* directory, and on a backed File whose host path holds a directory or a
\* symlink, returns EIO and leaves the cached attribute record as it was;
\* file_type_cached() is always Directory for a Dir and never Directory or
\* Symlink for a File; getattr on a node without a backing path returns the
\* cached record and does not ask the host.
C17_GetattrTypeChange ==
    /\ [](\A n \in 1..Len(nodes) :
             /\ nodes[n].kind = "Dir" => FileTypeCached(nodes[n]) = "Directory"
             /\ nodes[n].kind = "File" =>
                    FileTypeCached(nodes[n]) \notin {"Directory", "Symlink"})
    /\ [][GetattrStep =>
             LET n == last'.node
                 t == Stat(host, nodes[n].path)
                 changed == IF nodes[n].kind = "Dir" THEN t \notin {"none", "dir"}
                            ELSE t \in {"dir", "symlink"}
             IN  /\ (nodes[n].path # NoPath /\ changed) =>
                        (last'.res = "EIO" /\ nodes'[n].attr = nodes[n].attr)
                 /\ nodes[n].path = NoPath =>
                        /\ last'.res = "ok" /\ last'.attr = nodes[n].attr
                        /\ ~last'.hostStat /\ nodes' = nodes]_vars

\* C17 witness: getattr has returned EIO on a File whose host path has
\* become a symlink.
C17_Witness ==
    /\ last.op = "getattr" /\ last.res = "EIO"
    /\ nodes[last.node].kind = "File" /\ nodes[last.node].path # NoPath
    /\ Stat(host, nodes[last.node].path) = "symlink"

\* C18: a map call leaves every entry that exists in a child table as it is,
\* node and explicit_mapping flag; it only adds entries for absent names.
C18_MapKeepsEntries ==
    [][MapStep =>
          \A n \in 1..Len(nodes), x \in Names :
              nodes[n].children[x].node # NoNode =>
                  nodes'[n].children[x] = nodes[n].children[x]]_vars

\* C18 witness: a map call has succeeded through an entry that lookup or
\* readdir had entered as implicit.
C18_Witness ==
    /\ last.op = "map" /\ last.res = "ok"
    /\ \E k \in 1..(Len(last.comps) - 1) :
          LET e == BoundEntry(World, SubSeq(last.comps, 1, k))
          IN  e.node # NoNode /\ ~e.explicit

\* C19: a map call made with a non-empty list of components returns Ok or
\* Err: no recursive call of map receives an empty list, so split_components
\* never panics.
C19_NoEmptyComponents ==
    (last.op = "map" /\ last.comps # <<>>) => last.res # "panic"

\* Thread t waits for the lock of a node that thread u holds.
WaitsFor(t, u) == thr[t].pc = "lock" /\ thr[t].node \in HeldBy(u)

\* C20: no two threads each hold the lock of a node while waiting for a lock
\* the other holds.
C20_NoCrossDeadlock ==
    \A t, u \in Threads :
        t # u => ~(HeldBy(t) # {} /\ HeldBy(u) # {} /\ WaitsFor(t, u) /\ WaitsFor(u, t))

====
